---- MODULE Spec2Model ----
(***************************************************************************)
(* Model of src/scripts/components/map/path.js (class Path): the           *)
(* reachability / visibility / progress-state machine of one connector of  *)
(* the game map, together with the DOM class list it drives and the        *)
(* animation-frame callbacks show() schedules.                             *)
(***************************************************************************)
EXTENDS Integers, Sequences, FiniteSets, TLC

(***************************************************************************)
(* Bounds of the model.                                                    *)
(***************************************************************************)
\* The injected enumeration numbers its keys consecutively from a value in
\* 0..MaxFirstValue.
MaxFirstValue == 1
\* At most this many requestAnimationFrame callbacks are pending at once.
MaxFrames == 2
\* The endpoint boxes lie at 0 %, 50 %, ... , MaxCoord * 50 % of the map.
MaxCoord == 1

(***************************************************************************)
(* Constants of the program.  Numbers are kept exact: percentages and map  *)
(* sizes are integers, a length in px is held as 100 times its value, the  *)
(* path width fraction and MAX_FACTOR in tenths, a stroke width as 1000    *)
(* times its value in px.                                                  *)
(***************************************************************************)
MATH_TWO == 2
MATH_HUNDRED == 100
MIN_WIDTH_PX == 1
\* Path.MAX_FACTOR = 0.3, in tenths.
MAX_FACTOR == 3

(***************************************************************************)
(* JavaScript values.  Every value is a record of the same shape, so that  *)
(* values of different JavaScript types can be compared with =, which is   *)
(* then JavaScript's === on the types modelled here.                       *)
(***************************************************************************)
Undefined == [t |-> "undefined", n |-> 0, s |-> "", b |-> FALSE]
Null == [t |-> "null", n |-> 0, s |-> "", b |-> FALSE]
Num(n) == [t |-> "number", n |-> n, s |-> "", b |-> FALSE]
Str(s) == [t |-> "string", n |-> 0, s |-> s, b |-> FALSE]
Bool(b) == [t |-> "boolean", n |-> 0, s |-> "", b |-> b]

\* The typeof operator.
TypeOf(v) == IF v.t = "null" THEN "object" ELSE v.t

\* ToBoolean, as applied by !x, by x ? a : b and by if (x).
Truthy(v) ==
  CASE v.t = "boolean" -> v.b
    [] v.t = "number" -> v.n # 0
    [] v.t = "string" -> v.s # ""
    [] OTHER -> FALSE

\* a ?? b
Coalesce(a, b) == IF a = Undefined \/ a = Null THEN b ELSE a

(***************************************************************************)
(* The injected collaborators: globals.get('states') is an object whose    *)
(* own properties are the state names, each holding a number;              *)
(* globals.get('params').visual.paths.displayPaths is a boolean.           *)
(***************************************************************************)
KeyList == <<"open", "cleared", "locked">>

StateKeys == {KeyList[i] : i \in DOMAIN KeyList}

\* The enumerations injected: the keys numbered consecutively from a first value,
\* the numbering starting at any of the keys and wrapping round.
Enumerations ==
  {[k \in StateKeys |->
      first + (((CHOOSE i \in DOMAIN KeyList : KeyList[i] = k) - 1 + r)
                 % Len(KeyList))] :
     r \in 0..(Len(KeyList) - 1), first \in 0..MaxFirstValue}

\* obj[name] : the value of a property of the states object, undefined if absent.
GetProperty(obj, name) ==
  IF name \in DOMAIN obj THEN Num(obj[name]) ELSE Undefined

\* The property key a number is converted to when it indexes an object.
PropertyKey(v) == IF v.t = "number" THEN ToString(v.n) ELSE v.s

\* The values a caller may pass where a state is expected.
StateArgs ==
  {Num(n) : n \in 0..(MaxFirstValue + Len(KeyList))}
    \cup {Str(k) : k \in StateKeys} \cup {Str("bogus"), Undefined}

\* The values a caller may pass to setReachable.
ReachableArgs ==
  {Bool(TRUE), Bool(FALSE), Undefined, Null, Num(1), Str("true")}

\* The values a caller may pass as params.force and as params.isInitial.
ForceArgs == {Undefined, Bool(TRUE)}

InitialArgs == {Undefined, Bool(FALSE), Bool(TRUE)}

\* The percentages at which the endpoint boxes are placed.
Positions == {50 * i : i \in 0..MaxCoord}

\* params.telemetryFrom, params.telemetryTo and params.visuals.pathWidth
\* (in tenths) a map may be built with.
Geometries ==
  {[telemetryFrom |-> [x |-> fx, y |-> fy, width |-> fw, height |-> 10],
    telemetryTo |-> [x |-> tx, y |-> ty, width |-> 10, height |-> 10],
    pathWidth |-> pw] :
     fx \in Positions, fy \in Positions, tx \in Positions, ty \in Positions,
     fw \in {1, 10}, pw \in {0, 2, 10}}

\* from {0, 0, 10, 10}, to {50, 0, 10, 10}, pathWidth 0.2.
ExampleGeometry ==
  [telemetryFrom |-> [x |-> 0, y |-> 0, width |-> 10, height |-> 10],
   telemetryTo |-> [x |-> 50, y |-> 0, width |-> 10, height |-> 10],
   pathWidth |-> 2]

\* The map sizes (px) resize is called with; a map not laid out yet has size 0.
MapSizes == {[width |-> w, height |-> h] : w \in {0, 100, 1000}, h \in {0, 1000}}

VARIABLES
  states,    \* globals.get('states')
  params,    \* this.params (state, visible) and the global displayPaths flag
  path,      \* the Path instance: its fields, its classList, pending frames
  lastCall,  \* the call that produced the current state and how it ended
  observed   \* a result of computePathTelemetry a caller has kept

vars == <<states, params, path, lastCall, observed>>

(***************************************************************************)
(* The methods, as functions from the execution context before to the      *)
(* execution context after.  A context c holds the instance (c.obj), the   *)
(* number of state-tag updates of the classList made by the running call   *)
(* (c.tagUpdates), whether an exception is propagating (c.threw), and the   *)
(* map size given to and the telemetry computed by the call (c.mapSize,    *)
(* c.result).                                                              *)
(***************************************************************************)
\* Math.atan(deltaYPx / deltaXPx) + angleOffset, kept exact: the quotient as a
\* fraction num/den in lowest terms (den = 0: an infinity of the sign of num;
\* nan: 0/0) and the offset in units of Math.PI.
Angle(nan, num, den, offset) ==
  [nan |-> nan, num |-> num, den |-> den, offset |-> offset]

\* The telemetry record; isNull marks the null returned for a map of size 0.
\*   x      = (x.base2 + x.amp2 * cos(angle)) / 2                          [%]
\*   y      = (y.base2 + y.amp2 * sin(angle)) / 2
\*              - (width / 1000) / 2 * 100 / y.mapHeight                    [%]
\*   length = sqrt((length.dx/100)^2 + (length.dy/100)^2) - length.minus/100 [px]
\*   width  = width / 1000                                                 [px]
Telemetry(x, y, length, angle, width) ==
  [isNull |-> FALSE, x |-> x, y |-> y, length |-> length, angle |-> angle,
   width |-> width]

NullTelemetry ==
  [isNull |-> TRUE,
   x |-> [base2 |-> 0, amp2 |-> 0],
   y |-> [base2 |-> 0, amp2 |-> 0, mapHeight |-> 0],
   length |-> [dx |-> 0, dy |-> 0, minus |-> 0],
   angle |-> Angle(FALSE, 0, 1, 0),
   width |-> 0]

\* this.dom.style before update() has written to it.
UnsetStyle ==
  [set |-> FALSE, left |-> NullTelemetry.x, top |-> NullTelemetry.y,
   width |-> NullTelemetry.length, transform |-> NullTelemetry.angle,
   borderTopWidth |-> 0]

Begin(p) ==
  [obj |-> p, tagUpdates |-> 0, threw |-> FALSE,
   mapSize |-> [width |-> 0, height |-> 0], result |-> NullTelemetry]

isReachable(p) == p.isReachableState

isVisible(p) == p.isVisibleState

getState(p) == p.state

StateTag(key) == "h5p-game-map-path-" \o key

StateTags == {StateTag(k) : k \in StateKeys}

\* hide that sets only the 'display-none' marker.
hideWithoutTransparent(c) ==
  [c EXCEPT !.obj.classList = @ \cup {"display-none"},
            !.obj.isVisibleState = Bool(FALSE)]

hide(c) ==
  [c EXCEPT !.obj.classList = @ \cup {"display-none", "transparent"},
            !.obj.isVisibleState = Bool(FALSE)]

\* show that reveals in one phase: both markers go at once, no frame is awaited.
showSinglePhase(c, prm) ==
  IF ~prm.displayPaths
    THEN c
    ELSE [c EXCEPT !.obj.classList = @ \ {"display-none", "transparent"},
                   !.obj.isVisibleState = Bool(TRUE)]

\* show that does not consult the displayPaths flag.
showIgnoringDisplayPaths(c, prm) ==
  [c EXCEPT !.obj.classList = @ \ {"display-none"},
            !.obj.frames = @ + 1,
            !.obj.isVisibleState = Bool(TRUE)]

show(c, prm) ==
  IF ~prm.displayPaths
    THEN c
    ELSE [c EXCEPT !.obj.classList = @ \ {"display-none"},
                   !.obj.frames = @ + 1,
                   !.obj.isVisibleState = Bool(TRUE)]

\* The callback show() hands to window.requestAnimationFrame.
frameCallback(c) ==
  [c EXCEPT !.obj.classList = @ \ {"transparent"},
            !.obj.frames = @ - 1]

\* setReachable without the type guard: the argument is taken for its truth.
setReachableCoercing(c, state) ==
  LET c1 == [c EXCEPT !.obj.isReachableState = Bool(Truthy(state))]
  IN  IF ~Truthy(isReachable(c1.obj)) THEN hide(c1) ELSE c1

\* setReachable that stores the flag and forgets to hide the connector.
setReachableWithoutHide(c, state) ==
  IF TypeOf(state) # "boolean"
    THEN c
    ELSE [c EXCEPT !.obj.isReachableState = state]

setReachable(c, state) ==
  IF TypeOf(state) # "boolean"
    THEN c
    ELSE LET c1 == [c EXCEPT !.obj.isReachableState = state]
         IN  IF ~Truthy(isReachable(c1.obj)) THEN hide(c1) ELSE c1

\* Object.entries(states).find((entry) => entry[0] === state)
FindEntry(st, state) ==
  IF state.s \in DOMAIN st THEN <<state.s, st[state.s]>> ELSE Undefined

\* The value setState works with once a string argument has been looked up.
ResolveState(st, state) ==
  IF TypeOf(state) = "string" THEN Num(FindEntry(st, state)[2]) ELSE state

\* Reading [1] of the undefined result of find raises a TypeError.
setStateThrows(st, state) ==
  TypeOf(state) = "string" /\ FindEntry(st, state) = Undefined

NewState(st, state, force) ==
  IF Truthy(force)
    THEN GetProperty(st, PropertyKey(state))
    ELSE IF state = Num(st["open"]) THEN Num(st["open"])
    ELSE IF state = Num(st["cleared"]) THEN Num(st["cleared"])
    ELSE Undefined

\* The loop over Object.entries(states) that toggles the state tags.
UpdateTags(classList, st, state) ==
  (classList \ {StateTag(k) : k \in {j \in DOMAIN st : Num(st[j]) # state}})
    \cup {StateTag(k) : k \in {j \in DOMAIN st : Num(st[j]) = state}}

setState(c, st, arg, force) ==
  IF setStateThrows(st, arg)
    THEN [c EXCEPT !.threw = TRUE]
    ELSE
      LET state == ResolveState(st, arg)
          newState == NewState(st, state, force)
      IN  IF TypeOf(state) # "number"
            THEN c
            ELSE IF ~Truthy(c.obj.state) \/ c.obj.state # newState
              THEN [c EXCEPT !.obj.state = newState,
                             !.obj.classList = UpdateTags(@, st, newState),
                             !.tagUpdates = @ + 1]
              ELSE c

\* reset that restores the configured state whatever isInitial is.
resetToConfiguredState(c, st, prm, isInitial) ==
  LET c1 == setReachable(c, Bool(TRUE))
      c2 == setState(c1, st, prm.state, Undefined)
  IN  IF c2.threw
        THEN c2
        ELSE IF Truthy(isInitial) /\ prm.visible
          THEN show(c2, prm)
          ELSE hide(c2)

reset(c, st, prm, isInitial) ==
  LET c1 == setReachable(c, Bool(TRUE))
      state == IF Truthy(isInitial) THEN prm.state ELSE Num(st["open"])
      c2 == setState(c1, st, state, Undefined)
  IN  IF c2.threw
        THEN c2
        ELSE IF Truthy(isInitial) /\ prm.visible
          THEN show(c2, prm)
          ELSE hide(c2)

\* new Path(params): the fields and the classList when the constructor returns.
constructor(prm) ==
  LET fresh == [isReachableState |-> Undefined,
                isVisibleState |-> Undefined,
                state |-> Undefined,
                classList |-> {"h5p-game-map-path"},
                frames |-> 0,
                style |-> UnsetStyle]
  IN  IF ~prm.visible THEN hide(Begin(fresh)) ELSE show(Begin(fresh), prm)

(***************************************************************************)
(* The geometry.                                                           *)
(***************************************************************************)
Min(a, b) == IF a <= b THEN a ELSE b

Max(a, b) == IF a >= b THEN a ELSE b

Abs(a) == IF a < 0 THEN -a ELSE a

\* Math.sign
Sign(a) == IF a > 0 THEN 1 ELSE IF a < 0 THEN -1 ELSE 0

RECURSIVE Gcd(_, _)
Gcd(a, b) == IF b = 0 THEN a ELSE Gcd(b, a % b)

\* angleOffset with the offset given to a path pointing left only.
AngleOffsetStrict(deltaXPx) == IF Sign(deltaXPx) > 0 THEN 1 ELSE 0

\* angleOffset with the comparison turned round.
AngleOffsetFlipped(deltaXPx) == IF Sign(deltaXPx) <= 0 THEN 1 ELSE 0

\* (Math.sign(deltaXPx) >= 0) ? Math.PI : 0, in units of Math.PI.
AngleOffset(deltaXPx) == IF Sign(deltaXPx) >= 0 THEN 1 ELSE 0

\* Math.atan(deltaYPx / deltaXPx) + angleOffset.  A difference of equal
\* coordinates is +0, so a quotient by it is an infinity of the sign of
\* deltaYPx, or NaN for 0 / 0.
ComputeAngle(deltaYPx, deltaXPx) ==
  LET g == Gcd(Abs(deltaYPx), Abs(deltaXPx))
  IN  IF deltaXPx = 0 /\ deltaYPx = 0
        THEN Angle(TRUE, 0, 0, AngleOffset(deltaXPx))
      ELSE IF deltaXPx = 0
        THEN Angle(FALSE, Sign(deltaYPx), 0, AngleOffset(deltaXPx))
      ELSE Angle(FALSE, Sign(deltaXPx) * (deltaYPx \div g),
                 Abs(deltaXPx) \div g, AngleOffset(deltaXPx))

\* Math.min(Math.max(Path.MIN_WIDTH_PX, width * pathWidth),
\*          width * Path.MAX_FACTOR), times 1000; width is given times 100.
StrokeWidth(width, pathWidth) ==
  Min(Max(MIN_WIDTH_PX * 1000, width * pathWidth), width * MAX_FACTOR)

\* The record computePathTelemetry builds for a map that is laid out.
PathTelemetry(prm, mapSize) ==
  LET fromX == prm.telemetryFrom.x
      fromY == prm.telemetryFrom.y
      fromWidth == prm.telemetryFrom.width
      fromHeight == prm.telemetryFrom.height
      toX == prm.telemetryTo.x
      toY == prm.telemetryTo.y
      \* px, times MATH_HUNDRED
      fromXPx == fromX * mapSize.width
      fromYPx == fromY * mapSize.height
      toXPx == toX * mapSize.width
      toYPx == toY * mapSize.height
      width == fromWidth * mapSize.width
      deltaXPx == fromXPx - toXPx
      deltaYPx == fromYPx - toYPx
      angle == ComputeAngle(deltaYPx, deltaXPx)
      strokeWidth == StrokeWidth(width, prm.pathWidth)
      \* offsetToBorder.x = width / 2 * cos(angle) * 100 / mapSize.width
      \*                  = fromWidth / 2 * cos(angle), and so for y
      x == [base2 |-> MATH_TWO * fromX + fromWidth, amp2 |-> fromWidth]
      y == [base2 |-> MATH_TWO * fromY + fromHeight, amp2 |-> fromHeight,
            mapHeight |-> mapSize.height]
      length == [dx |-> Abs(deltaXPx), dy |-> Abs(deltaYPx), minus |-> width]
  IN  Telemetry(x, y, length, angle, strokeWidth)

\* computePathTelemetry that takes a map for laid out unless both sizes are 0.
computePathTelemetryBothZero(c, prm, mapSize) ==
  [c EXCEPT !.mapSize = mapSize,
            !.result = IF mapSize.height = 0 /\ mapSize.width = 0
                         THEN NullTelemetry
                         ELSE PathTelemetry(prm, mapSize)]

\* computePathTelemetry that also answers 'not ready' while the path is hidden.
computePathTelemetryWhenVisible(c, prm, mapSize) ==
  [c EXCEPT !.mapSize = mapSize,
            !.result = IF \/ mapSize.height = 0 \/ mapSize.width = 0
                          \/ isVisible(c.obj) # Bool(TRUE)
                         THEN NullTelemetry
                         ELSE PathTelemetry(prm, mapSize)]

computePathTelemetry(c, prm, mapSize) ==
  [c EXCEPT !.mapSize = mapSize,
            !.result = IF mapSize.height = 0 \/ mapSize.width = 0
                         THEN NullTelemetry
                         ELSE PathTelemetry(prm, mapSize)]

\* update(params): every field of a telemetry record is a number (NaN is one),
\* so all five style properties are written.
update(c, t) ==
  [c EXCEPT !.obj.style =
     [set |-> TRUE, left |-> t.x, top |-> t.y, width |-> t.length,
      transform |-> t.angle, borderTopWidth |-> t.width]]

resize(c, prm, mapSize) ==
  LET c1 == computePathTelemetry(c, prm, mapSize)
  IN  IF c1.result.isNull THEN c1 ELSE update(c1, c1.result)

\* Math.cos(angle) and Math.sin(angle) as a sign (that of Math.sign) and
\* whether the value is the residue of rounding of a value 0 in exact
\* arithmetic: Math.cos(Math.PI / 2) = 6.1e-17, Math.cos(Math.PI / 2 +
\* Math.PI) = -1.8e-16, Math.sin(Math.PI) = 1.2e-16.
Trig(nan, sign, residue) == [nan |-> nan, sign |-> sign, residue |-> residue]

Cos(a) ==
  IF a.nan THEN Trig(TRUE, 0, FALSE)
  ELSE IF a.den # 0
    THEN Trig(FALSE, IF a.offset = 0 THEN 1 ELSE -1, FALSE)
  ELSE IF a.offset = 0 THEN Trig(FALSE, 1, TRUE)
  ELSE Trig(FALSE, -Sign(a.num), TRUE)

Sin(a) ==
  IF a.nan THEN Trig(TRUE, 0, FALSE)
  ELSE IF a.offset = 0 THEN Trig(FALSE, Sign(a.num), FALSE)
  ELSE IF a.num = 0 THEN Trig(FALSE, 1, TRUE)
  ELSE Trig(FALSE, -Sign(a.num), FALSE)

\* this.params after the defaulting of the constructor.
ConstructorParams(st, state, visible, displayPaths) ==
  [state |-> Coalesce(state, Num(st["open"])),
   visible |-> visible,
   displayPaths |-> displayPaths]

(***************************************************************************)
(* The state machine.                                                      *)
(***************************************************************************)
Call(op, arg, flag, c) ==
  [op |-> op, arg |-> arg, flag |-> flag,
   tagUpdates |-> c.tagUpdates, threw |-> c.threw,
   mapSize |-> c.mapSize, result |-> c.result]

\* No result of computePathTelemetry has been kept.
NotObserved ==
  [seen |-> FALSE, mapSize |-> [width |-> 0, height |-> 0],
   result |-> NullTelemetry]

Init ==
  /\ states \in Enumerations
  /\ \E state \in {Undefined} \cup {Num(states[k]) : k \in StateKeys},
        visible \in BOOLEAN, displayPaths \in BOOLEAN :
       params = ConstructorParams(states, state, visible, displayPaths)
                  @@ ExampleGeometry
  /\ path = constructor(params).obj
  /\ lastCall = Call("constructor", Undefined, Undefined, Begin(path))
  /\ observed = NotObserved

\* The enumeration {open: 1, cleared: 2, locked: 3}.
PlainStates ==
  {e \in Enumerations : e["open"] = 1 /\ e["cleared"] = 2 /\ e["locked"] = 3}

\* A visible path of any geometry, displayPaths on.
GeometryInit ==
  /\ states \in PlainStates
  /\ \E geometry \in Geometries :
       params = ConstructorParams(states, Undefined, TRUE, TRUE) @@ geometry
  /\ path = constructor(params).obj
  /\ lastCall = Call("constructor", Undefined, Undefined, Begin(path))
  /\ observed = NotObserved

\* A visible path of the example geometry, displayPaths on.
PathInit ==
  /\ states \in PlainStates
  /\ params = ConstructorParams(states, Undefined, TRUE, TRUE)
                @@ ExampleGeometry
  /\ path = constructor(params).obj
  /\ lastCall = Call("constructor", Undefined, Undefined, Begin(path))
  /\ observed = NotObserved

\* show() is called only while fewer than MaxFrames callbacks are pending.
FramesBounded(c) == c.obj.frames <= MaxFrames

SetReachable ==
  \E arg \in ReachableArgs :
    LET c == setReachable(Begin(path), arg)
    IN  /\ path' = c.obj
        /\ lastCall' = Call("setReachable", arg, Undefined, c)
        /\ UNCHANGED <<states, params, observed>>

SetState ==
  \E arg \in StateArgs, force \in ForceArgs :
    LET c == setState(Begin(path), states, arg, force)
    IN  /\ path' = c.obj
        /\ lastCall' = Call("setState", arg, force, c)
        /\ UNCHANGED <<states, params, observed>>

Show ==
  LET c == show(Begin(path), params)
  IN  /\ FramesBounded(c)
      /\ path' = c.obj
      /\ lastCall' = Call("show", Undefined, Undefined, c)
      /\ UNCHANGED <<states, params, observed>>

Hide ==
  LET c == hide(Begin(path))
  IN  /\ path' = c.obj
      /\ lastCall' = Call("hide", Undefined, Undefined, c)
      /\ UNCHANGED <<states, params, observed>>

Reset ==
  \E isInitial \in InitialArgs :
    LET c == reset(Begin(path), states, params, isInitial)
    IN  /\ FramesBounded(c)
        /\ path' = c.obj
        /\ lastCall' = Call("reset", Undefined, isInitial, c)
        /\ UNCHANGED <<states, params, observed>>

\* The browser runs one pending animation-frame callback.
FrameCallback ==
  LET c == frameCallback(Begin(path))
  IN  /\ path.frames > 0
      /\ path' = c.obj
      /\ lastCall' = Call("frame", Undefined, Undefined, c)
      /\ UNCHANGED <<states, params, observed>>

\* A caller computes the telemetry; the result of one call is kept.
ComputePathTelemetry ==
  \E mapSize \in MapSizes,
     keep \in IF observed.seen THEN {FALSE} ELSE BOOLEAN :
    LET c == computePathTelemetry(Begin(path), params, mapSize)
    IN  /\ path' = c.obj
        /\ lastCall' = Call("computePathTelemetry", Undefined, Undefined, c)
        /\ observed' = IF keep
                         THEN [seen |-> TRUE, mapSize |-> mapSize,
                               result |-> c.result]
                         ELSE observed
        /\ UNCHANGED <<states, params>>

Resize ==
  \E mapSize \in MapSizes :
    LET c == resize(Begin(path), params, mapSize)
    IN  /\ path' = c.obj
        /\ lastCall' = Call("resize", Undefined, Undefined, c)
        /\ UNCHANGED <<states, params, observed>>

Next ==
  \/ SetReachable
  \/ SetState
  \/ Show
  \/ Hide
  \/ Reset
  \/ FrameCallback

Spec == Init /\ [][Next]_vars

\* The browser runs every callback handed to requestAnimationFrame.
FairSpec == Spec /\ WF_vars(FrameCallback)

\* The layout driver alone: telemetry computed and applied for every geometry.
GeometryNext ==
  \/ ComputePathTelemetry
  \/ Resize

GeometrySpec == GeometryInit /\ [][GeometryNext]_vars

\* The whole interface of a path: game logic and layout driver interleaved.
PathNext ==
  \/ Next
  \/ ComputePathTelemetry
  \/ Resize

PathSpec == PathInit /\ [][PathNext]_vars

(***************************************************************************)
(* What the claims speak of.                                               *)
(***************************************************************************)
\* The state tags present in the classList of an instance.
ActiveTags(p) == p.classList \cap StateTags

\* The tags of the keys the enumeration maps to a value.
TagsOf(st, v) == {StateTag(k) : k \in {j \in DOMAIN st : Num(st[j]) = v}}

\* Exactly one state tag is active and it is the tag of getState().
ExactlyOneTag(p, st) ==
  \E k \in DOMAIN st :
    ActiveTags(p) = {StateTag(k)} /\ getState(p) = Num(st[k])

UnreachableAndVisible(p) ==
  isReachable(p) = Bool(FALSE) /\ isVisible(p) = Bool(TRUE)

HiddenMarkers(p) == {"display-none", "transparent"} \subseteq p.classList

----
\* C1 (as claimed): in every reachable state, if isReachable() is false then
\* isVisible() is not true.
C1_UnreachableImpliesHidden ==
  isReachable(path) = Bool(FALSE) => isVisible(path) # Bool(TRUE)

\* C1 (amended): the path is never unreachable and visible after construction,
\* and show() is the only call that makes an unreachable path visible: a step
\* of any other operation ends unreachable and visible only if it began so.
C1_OnlyShowRevealsUnreachable ==
  /\ ~UnreachableAndVisible(path)
  /\ [][UnreachableAndVisible(path')
          => (lastCall'.op = "show" \/ UnreachableAndVisible(path))]_vars

\* An unreachable path that show() made visible, still so after a setState.
C1_Witness ==
  /\ UnreachableAndVisible(path)
  /\ lastCall.op = "setState"

\* C2: immediately after setReachable(false) returns, isReachable() is false,
\* isVisible() is false and both 'display-none' and 'transparent' are present.
C2_SetReachableFalseHides ==
  (lastCall.op = "setReachable" /\ lastCall.arg = Bool(FALSE))
    => /\ isReachable(path) = Bool(FALSE)
       /\ isVisible(path) = Bool(FALSE)
       /\ HiddenMarkers(path)

\* setReachable(false) has returned on a cleared path whose reveal was still
\* under way (a frame callback of a show() is pending).
C2_Witness ==
  /\ lastCall.op = "setReachable" /\ lastCall.arg = Bool(FALSE)
  /\ getState(path) = Num(states["cleared"])
  /\ path.frames > 0

\* C3: after setState(s, {force: true}) with s a member of the enumeration,
\* getState() returns s and the tag of s is the active state tag.
C3_ForcedSetStateApplies ==
  (/\ lastCall.op = "setState" /\ Truthy(lastCall.flag)
   /\ \E k \in StateKeys : lastCall.arg = Num(states[k]))
    => /\ getState(path) = lastCall.arg
       /\ ActiveTags(path) = TagsOf(states, lastCall.arg)

\* C4: an unforced setState(v) with v a number other than states.open and
\* states.cleared leaves getState() and the active state tags as they were.
C4_UnforcedOtherNumberIgnored ==
  [][(/\ lastCall'.op = "setState" /\ ~Truthy(lastCall'.flag)
      /\ TypeOf(lastCall'.arg) = "number"
      /\ lastCall'.arg \notin {Num(states["open"]), Num(states["cleared"])})
       => /\ getState(path') = getState(path)
          /\ ActiveTags(path') = ActiveTags(path)]_vars

\* C5: a setState or reset call leaves exactly one state tag active, the tag of
\* getState(), and every later call keeps it so.
C5_ExactlyOneTagAfterFirstSet ==
  [][(lastCall'.op \in {"setState", "reset"} \/ ExactlyOneTag(path, states))
       => ExactlyOneTag(path', states)]_vars

\* C6: an unforced setState(s), s open or cleared given as value or as key,
\* called when getState() already equals s, updates no tag.
C6_ReapplyingStateUpdatesNothing ==
  [][(/\ lastCall'.op = "setState" /\ ~Truthy(lastCall'.flag)
      /\ ~setStateThrows(states, lastCall'.arg)
      /\ ResolveState(states, lastCall'.arg)
           \in {Num(states["open"]), Num(states["cleared"])}
      /\ getState(path) = ResolveState(states, lastCall'.arg))
       => lastCall'.tagUpdates = 0]_vars

\* C7: after reset() or reset({isInitial: false}) returns, isReachable() is
\* true, getState() is states.open and isVisible() is false.
C7_ResetToOpenAndHidden ==
  (lastCall.op = "reset" /\ ~Truthy(lastCall.flag))
    => /\ isReachable(path) = Bool(TRUE)
       /\ getState(path) = Num(states["open"])
       /\ isVisible(path) = Bool(FALSE)

\* reset({isInitial: false}) has returned on a path configured cleared and
\* visible whose reveal was still under way.
C7_Witness ==
  /\ lastCall.op = "reset" /\ lastCall.flag = Bool(FALSE)
  /\ params.state = Num(states["cleared"]) /\ params.visible
  /\ path.frames > 0

\* C8: after reset({isInitial: true}) returns, isReachable() is true,
\* getState() is the configured initial state and isVisible() is true if the
\* path was configured visible and false otherwise.
C8_InitialResetRestoresConfiguration ==
  (lastCall.op = "reset" /\ Truthy(lastCall.flag))
    => /\ isReachable(path) = Bool(TRUE)
       /\ getState(path) = params.state
       /\ isVisible(path) = Bool(params.visible)

\* C9: setState with a string that is no key of the enumeration returns
\* normally and leaves getState() and the active state tags as they were.
C9_UnknownKeyFailsSilently ==
  [][(/\ lastCall'.op = "setState"
      /\ TypeOf(lastCall'.arg) = "string"
      /\ lastCall'.arg.s \notin DOMAIN states)
       => /\ ~lastCall'.threw
          /\ getState(path') = getState(path)
          /\ ActiveTags(path') = ActiveTags(path)]_vars

\* C10: while displayPaths is off, show() changes neither isVisible() nor the
\* markers and schedules no frame callback, and isVisible() is never true.
C10_NoDisplayPathsNeverVisible ==
  /\ ~params.displayPaths => isVisible(path) # Bool(TRUE)
  /\ [][~params.displayPaths
          => /\ isVisible(path') # Bool(TRUE)
             /\ lastCall'.op = "show" => path' = path]_vars

\* show() has returned on a path configured visible, with displayPaths off,
\* after a reset({isInitial: true}) made it reachable.
C10_Witness ==
  /\ ~params.displayPaths /\ params.visible
  /\ lastCall.op = "show"
  /\ isReachable(path) = Bool(TRUE)

\* C15: setReachable with a non-boolean argument changes nothing, and
\* setReachable(true) sets isReachable() to true and leaves isVisible() and the
\* markers as they were.
C15_SetReachableGuardedAndTrueKeepsVisibility ==
  [][lastCall'.op = "setReachable"
       => /\ TypeOf(lastCall'.arg) # "boolean" => path' = path
          /\ lastCall'.arg = Bool(TRUE)
               => /\ isReachable(path') = Bool(TRUE)
                  /\ isVisible(path') = isVisible(path)
                  /\ path'.classList = path.classList]_vars

\* setReachable('true') has returned on an unreachable, hidden path, which is
\* still unreachable.
C15_Witness ==
  /\ lastCall.op = "setReachable" /\ lastCall.arg = Str("true")
  /\ isReachable(path) = Bool(FALSE)
  /\ HiddenMarkers(path)

\* C16: once 'display-none' and 'transparent' are both present (hide() has
\* returned), they both stay present until the next show(), whatever frame
\* callbacks run in between.
C16_HiddenMarkersStayUntilShow ==
  [][(/\ HiddenMarkers(path)
      /\ lastCall'.op # "show"
      /\ ~(lastCall'.op = "reset" /\ Truthy(lastCall'.flag)))
       => HiddenMarkers(path')]_vars

C19_VisibilityFlagMatchesMarker ==
  /\ "display-none" \in path.classList <=> isVisible(path) # Bool(TRUE)
  /\ TypeOf(isVisible(path)) = "boolean"

----
\* A call of computePathTelemetry has returned a telemetry record.
Computed == lastCall.op = "computePathTelemetry" /\ ~lastCall.result.isNull

ZeroMap(mapSize) == mapSize.width = 0 \/ mapSize.height = 0

\* toXPx - fromXPx and toYPx - fromYPx of the last call, times 100.
TowardX == (params.telemetryTo.x - params.telemetryFrom.x) * lastCall.mapSize.width

TowardY == (params.telemetryTo.y - params.telemetryFrom.y) * lastCall.mapSize.height

\* The px width of the from box in the last call, times 100.
FromBoxWidth == params.telemetryFrom.width * lastCall.mapSize.width

IsExample ==
  /\ params.telemetryFrom = ExampleGeometry.telemetryFrom
  /\ params.telemetryTo = ExampleGeometry.telemetryTo
  /\ params.pathWidth = ExampleGeometry.pathWidth
  /\ lastCall.mapSize = [width |-> 1000, height |-> 1000]

\* C11: computePathTelemetry returns null exactly when mapSize.width or
\* mapSize.height is 0, and resize with such a mapSize leaves the applied
\* style (left, top, width, transform, border-top-width) unchanged.
C11_ZeroMapIsNotReady ==
  [][/\ lastCall'.op = "computePathTelemetry"
          => (lastCall'.result.isNull <=> ZeroMap(lastCall'.mapSize))
     /\ (lastCall'.op = "resize" /\ ZeroMap(lastCall'.mapSize))
          => path'.style = path.style]_vars

\* resize with a map of width 100 and height 0 has returned on a path whose
\* style an earlier resize had set.
C11_Witness ==
  /\ lastCall.op = "resize"
  /\ lastCall.mapSize = [width |-> 100, height |-> 0]
  /\ path.style.set

\* C12: for a from box of px width w > 0 the stroke width returned satisfies
\* MIN_WIDTH_PX <= width <= MAX_FACTOR * w.
C12_StrokeWidthClamped ==
  (Computed /\ FromBoxWidth > 0)
    => /\ MIN_WIDTH_PX * 1000 <= lastCall.result.width
       /\ lastCall.result.width <= MAX_FACTOR * FromBoxWidth

\* C13: for the example geometry on a map of 1000 x 1000 the delta is -500 px
\* and 0 px, the angle is 0 with no offset and the stroke width is 20; and
\* whenever dy = 0 and dx < 0 the angle is 0.
C13_ExampleGeometry ==
  Computed
    => /\ IsExample
            => /\ lastCall.result.length.dx = 500 * MATH_HUNDRED
               /\ lastCall.result.length.dy = 0
               /\ lastCall.result.angle = Angle(FALSE, 0, 1, 0)
               /\ lastCall.result.width = 20 * 1000
       /\ (TowardY = 0 /\ TowardX > 0)
            => lastCall.result.angle = Angle(FALSE, 0, 1, 0)

\* computePathTelemetry has returned for the example geometry.
C13_Witness == Computed /\ IsExample

\* C14: a call of computePathTelemetry changes nothing of the path or of its
\* parameters, and returns what an earlier call with the same mapSize
\* returned, whatever was called in between.
C14_TelemetryIsPure ==
  [][lastCall'.op = "computePathTelemetry"
       => /\ path' = path
          /\ params' = params
          /\ (observed.seen /\ observed.mapSize = lastCall'.mapSize)
               => lastCall'.result = observed.result]_vars

\* A second call with the mapSize of a kept non-null result has returned, the
\* path having been cleared, made unreachable and so hidden, and resized in
\* between.
C14_Witness ==
  /\ Computed
  /\ observed.seen /\ observed.mapSize = lastCall.mapSize
  /\ getState(path) = Num(states["cleared"])
  /\ isReachable(path) = Bool(FALSE)
  /\ path.style.set

\* C18 (as claimed): for from # to on a map laid out, the sign of cos(angle) is
\* the sign of toXPx - fromXPx and the sign of sin(angle) that of
\* toYPx - fromYPx.
C18_AngleSignsMatchDirection ==
  (Computed /\ (TowardX # 0 \/ TowardY # 0))
    => /\ Cos(lastCall.result.angle).sign = Sign(TowardX)
       /\ Sin(lastCall.result.angle).sign = Sign(TowardY)

\* A computed cosine or sine agrees with a component of the direction: it has
\* the sign of a component that is not 0, and for a component that is 0 it is
\* 0 or a residue of rounding.
Agrees(t, toward) ==
  /\ ~t.nan
  /\ IF toward = 0
       THEN t.sign = 0 \/ t.residue
       ELSE t.sign = Sign(toward) /\ ~t.residue

\* C18 (amended): cos(angle) and sin(angle) have the signs of the components
\* of to - from that are not 0; where a component is 0 the value is 0 or a
\* residue of rounding, not always 0.
C18_AngleSignsMatchUpToRounding ==
  (Computed /\ (TowardX # 0 \/ TowardY # 0))
    => /\ Agrees(Cos(lastCall.result.angle), TowardX)
       /\ Agrees(Sin(lastCall.result.angle), TowardY)

\* The telemetry of a path pointing straight up or down (dx = 0): the cosine
\* is a residue of rounding.
C18_Witness ==
  /\ Computed
  /\ TowardX = 0 /\ TowardY # 0
  /\ Cos(lastCall.result.angle).residue

====
